---- MODULE Spec2Model ----
(***************************************************************************)
(* Model of frontend/src/application/application.tsx: the composition root *)
(* Application, which returns the fixed element tree                       *)
(*     <BrowserRouter> <Setter> <Router /> </Setter> </BrowserRouter>      *)
(* and of the mounts of that tree by the host rendering environment.       *)
(* Setter (./setter) and Router (./router) are opaque components: each of  *)
(* their possible behaviours is a nondeterministic choice.                 *)
(***************************************************************************)
EXTENDS Naturals, Sequences, FiniteSets

\* Number of independent mounts (render roots) of Application.
NumMounts == 2

Instances == 1..NumMounts

VARIABLES
    lifecycle,   \* lifecycle[i]  : "Unmounted" or "Mounted"
    tree,        \* tree[i]       : the element tree Application returned to mount i
    mounted,     \* mounted[i]    : nodes of tree[i] whose component has rendered
    expanded,    \* expanded[i]   : nodes of tree[i] that have rendered their children
    setterInit,  \* setterInit[i] : Setter's own initialization: idle, pending, complete
    log,         \* log[i]        : component types in the order they rendered in
                 \*                 the latest mount
    raised,      \* raised[i]     : the error a component threw during this mount
    escaped,     \* escaped[i]    : the error that left Application's render call
    actor        \* actor[i]      : who took the last step of mount i ("none" before any)

vars == <<lifecycle, tree, mounted, expanded, setterInit, log, raised, escaped, actor>>

LifecycleStates == {"Unmounted", "Mounted"}

NoError == "none"

\* The empty tree of an unmounted root.
NoTree == [root |-> 0, nodes |-> <<>>]

Node(type, children) == [type |-> type, children |-> children]

----------------------------------------------------------------------------
(* Alternative composition roots, used to test the properties below.      *)

\* Setter wraps the History Provider.
ApplicationSetterOutside ==
    [root |-> 1,
     nodes |-> << Node("Setter", <<2>>),
                  Node("BrowserRouter", <<3>>),
                  Node("Router", <<>>) >>]

\* Router is a sibling of Setter instead of its child.
ApplicationSiblings ==
    [root |-> 1,
     nodes |-> << Node("BrowserRouter", <<2, 3>>),
                  Node("Setter", <<>>),
                  Node("Router", <<>>) >>]

\* Router is the parent of Setter.
ApplicationRouterAboveSetter ==
    [root |-> 1,
     nodes |-> << Node("BrowserRouter", <<2>>),
                  Node("Router", <<3>>),
                  Node("Setter", <<>>) >>]

\* Router is rendered twice inside Setter.
ApplicationTwoRouters ==
    [root |-> 1,
     nodes |-> << Node("BrowserRouter", <<2>>),
                  Node("Setter", <<3, 4>>),
                  Node("Router", <<>>),
                  Node("Router", <<>>) >>]

\* The tree is wrapped in an error boundary.
ApplicationWithBoundary ==
    [root |-> 1,
     nodes |-> << Node("ErrorBoundary", <<2>>),
                  Node("BrowserRouter", <<3>>),
                  Node("Setter", <<4>>),
                  Node("Router", <<>>) >>]

\* The tree depends on module-level state shared by all mounts.
ApplicationStateful ==
    IF \E j \in Instances : lifecycle[j] = "Mounted"
    THEN [root |-> 1,
          nodes |-> << Node("BrowserRouter", <<2>>),
                       Node("Router", <<>>) >>]
    ELSE [root |-> 1,
          nodes |-> << Node("BrowserRouter", <<2>>),
                       Node("Setter", <<3>>),
                       Node("Router", <<>>) >>]

\* What Application() returns: BrowserRouter around Setter around Router.
Application ==
    [root |-> 1,
     nodes |-> << Node("BrowserRouter", <<2>>),
                  Node("Setter", <<3>>),
                  Node("Router", <<>>) >>]

----------------------------------------------------------------------------
(* Structure of an element tree.                                           *)

Nodes(t) == DOMAIN t.nodes

TypeOf(t, n) == t.nodes[n].type

Children(t, n) == {t.nodes[n].children[k] : k \in DOMAIN t.nodes[n].children}

OfType(t, type) == {n \in Nodes(t) : TypeOf(t, n) = type}

Parents(t, n) == {p \in Nodes(t) : n \in Children(t, p)}

\* The parent of n, 0 for a node without one.
Parent(t, n) == IF Parents(t, n) = {} THEN 0 ELSE CHOOSE p \in Parents(t, n) : TRUE

RECURSIVE Descendants(_, _)
Descendants(t, n) ==
    Children(t, n) \cup UNION {Descendants(t, c) : c \in Children(t, n)}

\* Number of distinct paths from node n down to a node of the given type.
RECURSIVE PathsTo(_, _, _)
RECURSIVE SumPaths(_, _, _, _)
SumPaths(t, cs, k, type) ==
    IF k > Len(cs) THEN 0 ELSE PathsTo(t, cs[k], type) + SumPaths(t, cs, k + 1, type)
PathsTo(t, n, type) ==
    (IF TypeOf(t, n) = type THEN 1 ELSE 0) + SumPaths(t, t.nodes[n].children, 1, type)

\* Components of the host that render their children as they are.
Transparent == {"BrowserRouter", "ErrorBoundary"}

\* The nearest ancestor of n that catches errors of its descendants, 0 if none.
RECURSIVE Catcher(_, _)
Catcher(t, n) ==
    LET p == Parent(t, n)
    IN  IF p = 0 THEN 0
        ELSE IF TypeOf(t, p) = "ErrorBoundary" THEN p
        ELSE Catcher(t, p)

\* The error a component of the given type throws.
ErrorOf(type) ==
    CASE type = "BrowserRouter" -> "HistoryError"
      [] type = "Setter"        -> "SetterError"
      [] type = "Router"        -> "RouterError"
      [] OTHER                  -> "BoundaryError"

\* The error that leaves the render call when node n throws err.
EscapingError(t, n, err) == IF Catcher(t, n) = 0 THEN err ELSE NoError

----------------------------------------------------------------------------
(* Variants of the definitions below, used to test the properties.        *)

\* The root waits for Setter's readiness before it lets Setter's subtree render.
RenderableWhenReady(i) ==
    IF lifecycle[i] = "Mounted" /\ escaped[i] = NoError
    THEN {n \in Nodes(tree[i]) :
             /\ n \notin mounted[i]
             /\ \/ n = tree[i].root
                \/ /\ Parent(tree[i], n) \in expanded[i]
                   /\ TypeOf(tree[i], Parent(tree[i], n)) = "Setter"
                         => setterInit[i] = "complete"}
    ELSE {}

\* Unmounting leaves the leaves of the tree behind.
UnmountKeepsLeaves(i) ==
    /\ lifecycle[i] = "Mounted"
    /\ escaped[i] = NoError
    /\ lifecycle' = [lifecycle EXCEPT ![i] = "Unmounted"]
    /\ mounted' = [mounted EXCEPT ![i] = {n \in @ : Children(tree[i], n) = {}}]
    /\ expanded' = [expanded EXCEPT ![i] = {}]
    /\ setterInit' = [setterInit EXCEPT ![i] = "idle"]
    /\ raised' = [raised EXCEPT ![i] = NoError]
    /\ actor' = [actor EXCEPT ![i] = "host"]
    /\ UNCHANGED <<tree, log, escaped>>

----------------------------------------------------------------------------
(* State of one mount.                                                     *)

\* Nodes whose component the host may render next: the root, and the children
\* that a rendered parent has handed on.
Renderable(i) ==
    IF lifecycle[i] = "Mounted" /\ escaped[i] = NoError
    THEN {n \in Nodes(tree[i]) :
             /\ n \notin mounted[i]
             /\ \/ n = tree[i].root
                \/ Parent(tree[i], n) \in expanded[i]}
    ELSE {}

\* Number of markers in the rendered result below node n: Router renders one
\* marker, every other component renders what its rendered children render.
RECURSIVE Markers(_, _, _, _)
RECURSIVE SumMarkers(_, _, _, _, _)
SumMarkers(t, m, e, cs, k) ==
    IF k > Len(cs) THEN 0 ELSE Markers(t, m, e, cs[k]) + SumMarkers(t, m, e, cs, k + 1)
Markers(t, m, e, n) ==
    IF n \notin m THEN 0
    ELSE (IF TypeOf(t, n) = "Router" THEN 1 ELSE 0)
         + (IF n \in e THEN SumMarkers(t, m, e, t.nodes[n].children, 1) ELSE 0)

\* The marker count of the whole rendered result of mount i.
Output(i) ==
    IF lifecycle[i] = "Mounted"
    THEN Markers(tree[i], mounted[i], expanded[i], tree[i].root)
    ELSE 0

Init ==
    /\ lifecycle = [i \in Instances |-> "Unmounted"]
    /\ tree = [i \in Instances |-> NoTree]
    /\ mounted = [i \in Instances |-> {}]
    /\ expanded = [i \in Instances |-> {}]
    /\ setterInit = [i \in Instances |-> "idle"]
    /\ log = [i \in Instances |-> <<>>]
    /\ raised = [i \in Instances |-> NoError]
    /\ escaped = [i \in Instances |-> NoError]
    /\ actor = [i \in Instances |-> "none"]

----------------------------------------------------------------------------
(* Steps of the host environment.                                          *)

\* The host mounts Application: it calls Application() and keeps the tree.
Mount(i) ==
    /\ lifecycle[i] = "Unmounted"
    /\ lifecycle' = [lifecycle EXCEPT ![i] = "Mounted"]
    /\ tree' = [tree EXCEPT ![i] = Application]
    /\ mounted' = [mounted EXCEPT ![i] = {}]
    /\ expanded' = [expanded EXCEPT ![i] = {}]
    /\ setterInit' = [setterInit EXCEPT ![i] = "idle"]
    /\ log' = [log EXCEPT ![i] = <<>>]
    /\ raised' = [raised EXCEPT ![i] = NoError]
    /\ escaped' = [escaped EXCEPT ![i] = NoError]
    /\ actor' = [actor EXCEPT ![i] = "host"]

\* The host unmounts Application: the whole tree goes in one step.
Unmount(i) ==
    /\ lifecycle[i] = "Mounted"
    /\ escaped[i] = NoError
    /\ lifecycle' = [lifecycle EXCEPT ![i] = "Unmounted"]
    /\ tree' = [tree EXCEPT ![i] = NoTree]
    /\ mounted' = [mounted EXCEPT ![i] = {}]
    /\ expanded' = [expanded EXCEPT ![i] = {}]
    /\ setterInit' = [setterInit EXCEPT ![i] = "idle"]
    /\ raised' = [raised EXCEPT ![i] = NoError]
    /\ actor' = [actor EXCEPT ![i] = "host"]
    /\ UNCHANGED <<log, escaped>>

\* The host receives an error that left the render call: it drops the tree
\* and keeps the error.
OnError(i) ==
    /\ lifecycle[i] = "Mounted"
    /\ escaped[i] # NoError
    /\ lifecycle' = [lifecycle EXCEPT ![i] = "Unmounted"]
    /\ tree' = [tree EXCEPT ![i] = NoTree]
    /\ mounted' = [mounted EXCEPT ![i] = {}]
    /\ expanded' = [expanded EXCEPT ![i] = {}]
    /\ setterInit' = [setterInit EXCEPT ![i] = "idle"]
    /\ actor' = [actor EXCEPT ![i] = "host"]
    /\ UNCHANGED <<log, raised, escaped>>

----------------------------------------------------------------------------
(* Steps of the composed components.                                       *)

\* A component that renders its children as they are (the History Provider)
\* renders: it establishes its context and hands its children on.
RenderProvider(i) ==
    \E n \in Renderable(i) :
        /\ TypeOf(tree[i], n) \in Transparent
        /\ mounted' = [mounted EXCEPT ![i] = @ \cup {n}]
        /\ expanded' = [expanded EXCEPT ![i] = @ \cup {n}]
        /\ log' = [log EXCEPT ![i] = Append(@, TypeOf(tree[i], n))]
        /\ actor' = [actor EXCEPT ![i] = TypeOf(tree[i], n)]
        /\ UNCHANGED <<lifecycle, tree, setterInit, raised, escaped>>

\* Setter renders and its initialization is complete in the same step.
RenderSetterSync(i) ==
    \E n \in Renderable(i) :
        /\ TypeOf(tree[i], n) = "Setter"
        /\ mounted' = [mounted EXCEPT ![i] = @ \cup {n}]
        /\ expanded' = [expanded EXCEPT ![i] = @ \cup {n}]
        /\ setterInit' = [setterInit EXCEPT ![i] = "complete"]
        /\ log' = [log EXCEPT ![i] = Append(@, "Setter")]
        /\ actor' = [actor EXCEPT ![i] = "Setter"]
        /\ UNCHANGED <<lifecycle, tree, raised, escaped>>

\* Setter renders and starts an initialization that completes later; it
\* either renders its children at once or withholds them until then.
RenderSetterAsync(i) ==
    \E n \in Renderable(i), withhold \in BOOLEAN :
        /\ TypeOf(tree[i], n) = "Setter"
        /\ mounted' = [mounted EXCEPT ![i] = @ \cup {n}]
        /\ expanded' = [expanded EXCEPT ![i] = IF withhold THEN @ ELSE @ \cup {n}]
        /\ setterInit' = [setterInit EXCEPT ![i] = "pending"]
        /\ log' = [log EXCEPT ![i] = Append(@, "Setter")]
        /\ actor' = [actor EXCEPT ![i] = "Setter"]
        /\ UNCHANGED <<lifecycle, tree, raised, escaped>>

\* Setter's pending initialization completes; Setter renders its children if
\* it had withheld them.
SetterInitComplete(i) ==
    /\ lifecycle[i] = "Mounted"
    /\ escaped[i] = NoError
    /\ setterInit[i] = "pending"
    /\ setterInit' = [setterInit EXCEPT ![i] = "complete"]
    /\ expanded' = [expanded EXCEPT ![i] =
                        @ \cup (OfType(tree[i], "Setter") \cap mounted[i])]
    /\ actor' = [actor EXCEPT ![i] = "Setter"]
    /\ UNCHANGED <<lifecycle, tree, mounted, log, raised, escaped>>

\* Router renders the view of the current location (a marker); in a tree
\* that gives it children it hands them on.
RenderRouter(i) ==
    \E n \in Renderable(i) :
        /\ TypeOf(tree[i], n) = "Router"
        /\ mounted' = [mounted EXCEPT ![i] = @ \cup {n}]
        /\ expanded' = [expanded EXCEPT ![i] = @ \cup {n}]
        /\ log' = [log EXCEPT ![i] = Append(@, "Router")]
        /\ actor' = [actor EXCEPT ![i] = "Router"]
        /\ UNCHANGED <<lifecycle, tree, setterInit, raised, escaped>>

\* A variant in which the throwing component takes the tree down itself.
ThrowAndUnmount(i) ==
    \E n \in Renderable(i) :
        /\ raised' = [raised EXCEPT ![i] = ErrorOf(TypeOf(tree[i], n))]
        /\ escaped' = [escaped EXCEPT ![i] = NoError]
        /\ lifecycle' = [lifecycle EXCEPT ![i] = "Unmounted"]
        /\ tree' = [tree EXCEPT ![i] = NoTree]
        /\ mounted' = [mounted EXCEPT ![i] = {}]
        /\ expanded' = [expanded EXCEPT ![i] = {}]
        /\ setterInit' = [setterInit EXCEPT ![i] = "idle"]
        /\ actor' = [actor EXCEPT ![i] = TypeOf(tree[i], n)]
        /\ UNCHANGED log

\* A component throws while it renders.  The error travels up the tree; with
\* no ancestor that catches it, it leaves Application's render call as it is.
\* An ancestor that catches it drops its subtree and the error with it.
Throw(i) ==
    \E n \in Renderable(i) :
        LET t == tree[i]
            err == ErrorOf(TypeOf(t, n))
            c == Catcher(t, n)
            dropped == IF c = 0 THEN {} ELSE {c} \cup Descendants(t, c)
        IN  /\ raised' = [raised EXCEPT ![i] = err]
            /\ escaped' = [escaped EXCEPT ![i] = EscapingError(t, n, err)]
            /\ mounted' = [mounted EXCEPT ![i] = (@ \ dropped) \cup (IF c = 0 THEN {} ELSE {c})]
            /\ expanded' = [expanded EXCEPT ![i] = @ \ dropped]
            /\ actor' = [actor EXCEPT ![i] = TypeOf(t, n)]
            /\ UNCHANGED <<lifecycle, tree, setterInit, log>>

Next ==
    \E i \in Instances :
        \/ Mount(i)
        \/ Unmount(i)
        \/ OnError(i)
        \/ RenderProvider(i)
        \/ RenderSetterSync(i)
        \/ RenderSetterAsync(i)
        \/ SetterInitComplete(i)
        \/ RenderRouter(i)
        \/ Throw(i)

Spec == Init /\ [][Next]_vars

----------------------------------------------------------------------------
(* Properties.                                                             *)

\* Everything mount i holds.
View(i) ==
    <<lifecycle[i], tree[i], mounted[i], expanded[i], setterInit[i], log[i],
      raised[i], escaped[i], actor[i]>>

\* Every b in the sequence s has an a before it.
Precedes(s, a, b) ==
    \A p \in DOMAIN s : s[p] = b => \E q \in 1..(p - 1) : s[q] = a

\* The render of mount i has finished with no error, and every component
\* that was given children has rendered them.
Settled(i) ==
    /\ lifecycle[i] = "Mounted"
    /\ raised[i] = NoError
    /\ Renderable(i) = {}
    /\ \A n \in mounted[i] : Children(tree[i], n) # {} => n \in expanded[i]

\* C1: whenever Application is mounted, its tree holds exactly one History
\* Provider (BrowserRouter); that node is the root, it has no parent among
\* the composed components, and it is the only node without a parent.
C1_SingleOutermostProvider ==
    \A i \in Instances :
        lifecycle[i] = "Mounted" =>
            LET t == tree[i]
            IN  /\ Cardinality(OfType(t, "BrowserRouter")) = 1
                /\ t.root \in Nodes(t)
                /\ TypeOf(t, t.root) = "BrowserRouter"
                /\ Parents(t, t.root) = {}
                /\ {n \in Nodes(t) : Parents(t, n) = {}} = {t.root}
                /\ Cardinality(OfType(t, "BrowserRouter") \cap mounted[i]) <= 1

\* A mount whose History Provider has rendered.
C1_Witness ==
    /\ lifecycle[1] = "Mounted"
    /\ OfType(tree[1], "BrowserRouter") \cap mounted[1] # {}

\* C2: in every mount there is one Setter and one Router; Setter's parent is
\* the History Provider and its only child is Router, Router has no children,
\* there is exactly one path from the root to Router, and the tree is the
\* same whatever the state of the mount and of the other mounts.
C2_FixedNesting ==
    \A i \in Instances :
        lifecycle[i] = "Mounted" =>
            LET t == tree[i]
            IN  /\ Cardinality(OfType(t, "Setter")) = 1
                /\ Cardinality(OfType(t, "Router")) = 1
                /\ \A s \in OfType(t, "Setter") :
                      /\ Parents(t, s) # {}
                      /\ Parents(t, s) \subseteq OfType(t, "BrowserRouter")
                      /\ t.nodes[s].children \in {<<r>> : r \in OfType(t, "Router")}
                /\ \A r \in OfType(t, "Router") :
                      /\ Children(t, r) = {}
                      /\ Parents(t, r) = OfType(t, "Setter")
                /\ PathsTo(t, t.root, "Router") = 1
                /\ \A j \in Instances : lifecycle[j] = "Mounted" => tree[j] = t

\* A fully rendered mount whose Setter has completed its initialization.
C2_Witness ==
    /\ lifecycle[1] = "Mounted"
    /\ mounted[1] = Nodes(tree[1])
    /\ setterInit[1] = "complete"

\* C3: in the order in which the components of a mount render, Router never
\* comes before Setter and Setter never before the History Provider, whatever
\* the state of Setter's initialization.
C3_RenderOrder ==
    \A i \in Instances :
        /\ Precedes(log[i], "Setter", "Router")
        /\ Precedes(log[i], "BrowserRouter", "Setter")

\* All three have rendered, in order, while Setter's initialization is pending.
C3_Witness ==
    /\ lifecycle[1] = "Mounted"
    /\ log[1] = <<"BrowserRouter", "Setter", "Router">>
    /\ setterInit[1] = "pending"

\* C4: an error thrown by the History Provider, Setter or Router during a
\* mount leaves Application's render call as the same error: it is never
\* caught or replaced, and while the tree is still mounted the error is on
\* its way to the host and nothing more renders.
C4_ErrorsPropagate ==
    \A i \in Instances :
        raised[i] # NoError =>
            /\ escaped[i] = raised[i]
            /\ lifecycle[i] = "Mounted" => (ENABLED OnError(i)) /\ Renderable(i) = {}

\* Setter threw during initialization and the host received that error.
C4_Witness ==
    /\ raised[1] = "SetterError"
    /\ escaped[1] = "SetterError"
    /\ lifecycle[1] = "Unmounted"

\* C5: when the render has finished and the History Provider and Setter have
\* rendered their children, the result holds Router's marker exactly once.
C5_MarkerOnce ==
    \A i \in Instances : Settled(i) => Output(i) = 1

\* A finished render with a Setter whose initialization is complete.
C5_Witness ==
    /\ Settled(1)
    /\ log[1] = <<"BrowserRouter", "Setter", "Router">>
    /\ setterInit[1] = "complete"
    /\ Output(1) = 1

\* C6: any two mounted instances hold the same tree, and a step that changes
\* one mount leaves every other mount as it was.
C6_IndependentMounts ==
    [][ /\ \A i, j \in Instances :
              lifecycle'[i] = "Mounted" /\ lifecycle'[j] = "Mounted"
                  => tree'[i] = tree'[j]
        /\ \A i, j \in Instances :
              i # j /\ View(i)' # View(i) => View(j)' = View(j) ]_vars

\* Two mounts at different points of their render.
C6_Witness ==
    /\ lifecycle[1] = "Mounted" /\ lifecycle[2] = "Mounted"
    /\ mounted[1] = Nodes(tree[1])
    /\ mounted[2] = {tree[2].root}
    /\ setterInit[1] # setterInit[2]

C8_UnmountTakesAll ==
    [][ \A i \in Instances :
           /\ lifecycle'[i] = "Unmounted" => mounted'[i] = {} /\ expanded'[i] = {}
           /\ mounted[i] \ mounted'[i] # {}
                 => lifecycle'[i] = "Unmounted" /\ actor'[i] = "host" ]_vars

\* The host has unmounted a mount in which all three components had rendered
\* and no error was thrown.
C8_Witness ==
    /\ lifecycle[1] = "Unmounted"
    /\ actor[1] = "host"
    /\ escaped[1] = NoError
    /\ log[1] = <<"BrowserRouter", "Setter", "Router">>
    /\ mounted[1] = {}

\* C9: once Setter has rendered its children, Router can render whatever the
\* state of Setter's initialization: the root waits for no readiness signal.
C9_NoReadinessGate ==
    \A i \in Instances :
        ( /\ lifecycle[i] = "Mounted"
          /\ escaped[i] = NoError
          /\ \E r \in OfType(tree[i], "Router") \ mounted[i] :
                Parent(tree[i], r) \in expanded[i] )
        => ENABLED RenderRouter(i)

\* Router has rendered and Setter's initialization is not yet complete.
C9_Witness ==
    /\ OfType(tree[1], "Router") \cap mounted[1] # {}
    /\ setterInit[1] = "pending"
    /\ lifecycle[1] = "Mounted"

\* C10: a mounted Router has a mounted Setter that rendered its children, and
\* a mounted Setter has a mounted History Provider that rendered its
\* children; while Setter withholds its children, Router is not mounted.
C10_MountedImpliesAncestors ==
    \A i \in Instances :
        LET t == tree[i]
            live(type) == OfType(t, type) \cap mounted[i]
        IN  /\ live("Router") # {} => live("Setter") \cap expanded[i] # {}
            /\ live("Setter") # {} => live("BrowserRouter") \cap expanded[i] # {}
            /\ \A r \in live("Router") : Parent(t, r) \in live("Setter") \cap expanded[i]
            /\ \A s \in live("Setter") : Parent(t, s) \in live("BrowserRouter") \cap expanded[i]

\* Setter is mounted and withholds its children; Router is not mounted.
C10_Witness ==
    /\ lifecycle[1] = "Mounted"
    /\ OfType(tree[1], "Setter") \cap mounted[1] # {}
    /\ OfType(tree[1], "Setter") \cap expanded[1] = {}
    /\ OfType(tree[1], "Router") \cap mounted[1] = {}
    /\ Renderable(1) = {}

====
